---- MODULE Spec2Model ----
(***************************************************************************)
(* Model of google-photos-magic:                                           *)
(*   internal/repository/oauth_repository.go  (the token file)             *)
(*   internal/usecase/oauth_usecase.go        (the use case and the        *)
(*                                             local callback server flow) *)
(*   the album repository, use case and CLI handler                        *)
(*                                                                         *)
(* Values that are Go strings or errors are tuples here, so that every     *)
(* comparison is between values of one shape: Nil is the nil error.        *)
(* Times are Unix seconds; 0 is the zero time.Time.                        *)
(***************************************************************************)
EXTENDS Naturals, Integers, Sequences, FiniteSets, TLC

\* ------------------------------------------------------------- bounds
\* The clock is not advanced beyond this between calls.
MaxClock == 30
\* CompleteAuthentication calls made by the store driver.
MaxSaves == 1
\* AuthenticateClient calls made by the store driver.
MaxLoads == 2
\* Callback requests the local server receives in one flow.
MaxReq == 2

\* ------------------------------------------------------------- constants
\* codeChan := make(chan string, 1); errChan := make(chan error, 1)
ChanCap == 1

Nil == <<"nil">>
Codes == {"c1", "c2"}
\* expires_in values the token endpoint answers with (0: no expiry given).
Lifetimes == {0, 20}
RefreshTokens == {"", "rt"}

\* ------------------------------------------------------------- oauth2.Token
ZeroToken ==
    [access_token |-> "", token_type |-> "", refresh_token |-> "",
     expiry |-> 0, raw |-> <<>>]

\* oauth2.Token.Valid: a token with an access token that is not expired; a zero
\* Expiry never expires, and a token counts as expired 10 seconds (expiryDelta)
\* before its Expiry.
TokenValid(tok, now) ==
    /\ tok.access_token # ""
    /\ \/ tok.expiry = 0
       \/ ~(tok.expiry - 10 < now)

\* The token the endpoint issues for a code at time now.
IssuedToken(code, now, life, refresh) ==
    [access_token |-> code, token_type |-> "Bearer", refresh_token |-> refresh,
     expiry |-> IF life = 0 THEN 0 ELSE now + life, raw |-> <<"id_token", code>>]

\* ------------------------------------------------------------- encoding/json
\* json.NewEncoder(f).Encode(tok): the exported fields of oauth2.Token in
\* declaration order, token_type and refresh_token omitted when empty, the
\* unexported raw field never written, and a newline after the value.  The
\* file is a sequence of lexical items.
EncodeToken(tok) ==
    <<  <<"{">>, <<"access_token", tok.access_token>> >>
    \o (IF tok.token_type = "" THEN <<>> ELSE << <<"token_type", tok.token_type>> >>)
    \o (IF tok.refresh_token = "" THEN <<>>
        ELSE << <<"refresh_token", tok.refresh_token>> >>)
    \o << <<"expiry", tok.expiry>>, <<"}">>, <<"\n">> >>

Prefix(s, k) == SubSeq(s, 1, k)

HasItem(data, key) == \E i \in 1..Len(data) : data[i][1] = key

Field(data, key, default) ==
    IF \E i \in 1..Len(data) : data[i][1] = key /\ Len(data[i]) = 2
    THEN data[CHOOSE i \in 1..Len(data) : data[i][1] = key /\ Len(data[i]) = 2][2]
    ELSE default

\* json.NewDecoder(f).Decode(&tok) on what the file holds when it is read: EOF
\* for an empty file, unexpected EOF for a value that is cut short (nothing is
\* assigned then), else the fields found; the first complete value is enough,
\* the trailing newline is not needed.
DecodeToken(data) ==
    IF data = <<>> THEN [tok |-> ZeroToken, err |-> <<"EOF">>]
    ELSE IF ~HasItem(data, "}") THEN [tok |-> ZeroToken, err |-> <<"unexpected EOF">>]
    ELSE [tok |-> [access_token  |-> Field(data, "access_token", ""),
                   token_type    |-> Field(data, "token_type", ""),
                   refresh_token |-> Field(data, "refresh_token", ""),
                   expiry        |-> Field(data, "expiry", 0),
                   raw           |-> <<>>],
          err |-> Nil]

VARIABLES
    clock,          \* time.Now().Unix()
    tokenFile,      \* token.json: [exists, data]
    ca,             \* the running CompleteAuthentication: [pc, code, token, err]
    exchangeCalls,  \* ExchangeCode calls of the running invocation, with results
    saveCalls,      \* tokens SaveToken was called with in the running invocation
    calls,          \* order of those service calls ("exchange", "save")
    prevFile,       \* tokenFile when the running CompleteAuthentication began
    ac,             \* the running AuthenticateClient
    nSaves, nLoads, \* calls made by the store driver
    pc,             \* where CompleteAuthenticationWithServer is
    state,          \* the state minted for this invocation
    server,         \* the http.Server: [listener, inShutdown]
    lg,             \* where the goroutine running ListenAndServe is
    codeChan,       \* buffered channel of codes
    errChan,        \* buffered channel of errors
    reqs,           \* the requests accepted so far, each with its handler
    picked,         \* the case the select took: "none", "code", "err", "timeout"
    polled,         \* the channels that held a value when the select was reached
    recv,           \* the message the select received
    result,         \* the error CompleteAuthenticationWithServer returned
    shutdownCalls,  \* calls of server.Shutdown
    sent,           \* the channels signalled so far, in order of the sends
    earlier,        \* the state minted by the invocation before this one, if any
    cli,            \* the album command being run: [pc, repo, cmd, arg]
    ucCalls,        \* AlbumUseCase calls of that command: what each returned and
                    \* the AlbumRepository calls it made
    out,            \* the lines the CLI handler logged after each of those calls
    nCmds           \* album commands run so far

storeVars == <<tokenFile, ca, exchangeCalls, saveCalls, calls, prevFile>>
readerVars == <<ac, nLoads>>
flowVars ==
    <<pc, state, server, lg, codeChan, errChan, reqs, picked, polled, recv, result,
      shutdownCalls, sent, earlier>>
albumVars == <<cli, ucCalls, out, nCmds>>
vars == <<clock, storeVars, readerVars, nSaves, flowVars, albumVars>>

AbsentFile == [exists |-> FALSE, data |-> <<>>]
FileOf(tok) == [exists |-> TRUE, data |-> EncodeToken(tok)]

IdleCA == [pc |-> "idle", code |-> "", token |-> ZeroToken, err |-> Nil]
IdleAC ==
    [pc |-> "idle", cfgErr |-> Nil, load |-> [tok |-> ZeroToken, err |-> Nil],
     config |-> <<"nil">>, err |-> Nil, log |-> <<>>, during |-> FALSE,
     seen |-> <<>>, old |-> <<>>, new |-> <<>>, now |-> 0]

\* Tokens a token file left by an earlier run may hold: issued at time 0, one
\* whose expiry (5) is in the past from the start and one that expires later.
InitTokens == {IssuedToken("c0", 0, 5, "rt"), IssuedToken("c0", 0, 20, "rt")}

\* ------------------------------------------------------------- OAuthService
\* config.Exchange(ctx, code): the token endpoint refuses the code or issues a
\* token for it.
ExchangeCode(code, now) ==
    {[tok |-> ZeroToken, err |-> <<"exchange failed">>]}
    \cup {[tok |-> IssuedToken(code, now, l, r), err |-> Nil] :
             l \in Lifetimes, r \in RefreshTokens}

\* ------------------------------------------------------------- CompleteAuthentication
\* Mutant: the token is returned without being saved.
CA_ExchangeNoSave ==
    /\ ca.pc = "exchange"
    /\ \E res \in ExchangeCode(ca.code, clock) :
          /\ exchangeCalls' = Append(exchangeCalls, [code |-> ca.code, res |-> res])
          /\ ca' = [ca EXCEPT !.pc = "done", !.token = res.tok, !.err = res.err]
    /\ calls' = Append(calls, "exchange")
    /\ UNCHANGED <<albumVars, clock, tokenFile, saveCalls, prevFile, readerVars, nSaves,
                   flowVars>>

\* Mutant: the token is saved also when the exchange failed.
CA_ExchangeSavesAnyway ==
    /\ ca.pc = "exchange"
    /\ \E res \in ExchangeCode(ca.code, clock) :
          /\ exchangeCalls' = Append(exchangeCalls, [code |-> ca.code, res |-> res])
          /\ ca' = [ca EXCEPT !.pc = "save", !.token = res.tok]
    /\ calls' = Append(calls, "exchange")
    /\ UNCHANGED <<albumVars, clock, tokenFile, saveCalls, prevFile, readerVars, nSaves,
                   flowVars>>

\* token, err := uc.oauthService.ExchangeCode(code); an error is returned at
\* once, else the token goes to SaveToken.
CA_Exchange ==
    /\ ca.pc = "exchange"
    /\ \E res \in ExchangeCode(ca.code, clock) :
          /\ exchangeCalls' = Append(exchangeCalls, [code |-> ca.code, res |-> res])
          /\ ca' = IF res.err # Nil
                   THEN [ca EXCEPT !.pc = "done", !.err = res.err]
                   ELSE [ca EXCEPT !.pc = "save", !.token = res.tok]
    /\ calls' = Append(calls, "exchange")
    /\ UNCHANGED <<albumVars, clock, tokenFile, saveCalls, prevFile, readerVars, nSaves,
                   flowVars>>

\* SaveToken, first half: f, err := os.Create(tokenFile).  Create fails and
\* leaves the file as it was, or truncates (or creates) the file.
ST_Create ==
    /\ ca.pc = "save"
    /\ saveCalls' = Append(saveCalls, ca.token)
    /\ calls' = Append(calls, "save")
    /\ \/ /\ ca' = [ca EXCEPT !.pc = "done",
                              !.err = <<"failed to create token file">>]
          /\ UNCHANGED tokenFile
       \/ /\ ca' = [ca EXCEPT !.pc = "encode"]
          /\ tokenFile' = [exists |-> TRUE, data |-> <<>>]
    /\ UNCHANGED <<albumVars, clock, exchangeCalls, prevFile, readerVars, nSaves,
                   flowVars>>

\* SaveToken, second half: json.NewEncoder(f).Encode(tok), then the deferred
\* f.Close().  The write stores all of the encoding, or fails having stored
\* only the first k items of it.
ST_Encode ==
    /\ ca.pc = "encode"
    /\ \E k \in 0..Len(EncodeToken(ca.token)) :
          /\ tokenFile' = [exists |-> TRUE, data |-> Prefix(EncodeToken(ca.token), k)]
          /\ ca' = [ca EXCEPT !.pc = "done",
                              !.err = IF k = Len(EncodeToken(ca.token)) THEN Nil
                                      ELSE <<"write failed">>]
    /\ UNCHANGED <<albumVars, clock, exchangeCalls, saveCalls, calls, prevFile,
                   readerVars, nSaves, flowVars>>

\* ------------------------------------------------------------- AuthenticateClient
\* Mutant: an expired token is taken for a valid one.
AuthenticateClientExpiredAsValid(cfgErr, load, now) ==
    IF cfgErr # Nil
    THEN [config |-> <<"nil">>, err |-> cfgErr,
          log |-> <<"Failed to get OAuth config">>]
    ELSE IF load.err # Nil
    THEN [config |-> <<"config">>, err |-> Nil,
          log |-> <<"No existing token found, starting OAuth flow...">>]
    ELSE [config |-> <<"config">>, err |-> Nil,
          log |-> <<"Valid token found, authentication successful">>]

\* Mutant: a token that cannot be loaded is an error.
AuthenticateClientFailsOnLoad(cfgErr, load, now) ==
    IF cfgErr # Nil \/ load.err # Nil
    THEN [config |-> <<"nil">>, err |-> IF cfgErr # Nil THEN cfgErr ELSE load.err,
          log |-> <<"Failed to get OAuth config">>]
    ELSE [config |-> <<"config">>, err |-> Nil, log |-> <<"Valid token found">>]

\* What AuthenticateClient returns and logs, given GetClient's error, LoadToken's
\* result and the time of the Valid check.
AuthenticateClient(cfgErr, load, now) ==
    IF cfgErr # Nil
    THEN [config |-> <<"nil">>, err |-> cfgErr,
          log |-> <<"Failed to get OAuth config">>]
    ELSE IF load.err # Nil
    THEN [config |-> <<"config">>, err |-> Nil,
          log |-> <<"No existing token found, starting OAuth flow...">>]
    ELSE IF TokenValid(load.tok, now)
    THEN [config |-> <<"config">>, err |-> Nil,
          log |-> <<"Valid token found, authentication successful">>]
    ELSE [config |-> <<"config">>, err |-> Nil,
          log |-> <<"Token expired, starting OAuth flow...">>]

\* The call returns: its results are what AuthenticateClient computes.
AC_Finish(cfgErr, load, during, seen) ==
    ac' = [pc |-> "done", cfgErr |-> cfgErr, load |-> load,
           config |-> AuthenticateClient(cfgErr, load, clock).config,
           err |-> AuthenticateClient(cfgErr, load, clock).err,
           log |-> AuthenticateClient(cfgErr, load, clock).log,
           during |-> during, seen |-> seen,
           old |-> IF during THEN prevFile.data ELSE <<>>,
           new |-> IF during THEN EncodeToken(ca.token) ELSE <<>>,
           now |-> clock]

\* config, err := uc.oauthService.GetClient()
AC_GetClient ==
    /\ ac.pc \in {"idle", "done"}
    /\ nLoads < MaxLoads
    /\ nLoads' = nLoads + 1
    /\ \/ AC_Finish(<<"config error">>, IdleAC.load, FALSE, <<>>)
       \/ ac' = [IdleAC EXCEPT !.pc = "open"]
    /\ UNCHANGED <<albumVars, clock, storeVars, nSaves, flowVars>>

\* LoadToken, first half: f, err := os.Open(tokenFile)
LT_Open ==
    /\ ac.pc = "open"
    /\ IF tokenFile.exists
       THEN ac' = [ac EXCEPT !.pc = "decode"]
       ELSE AC_Finish(Nil, [tok |-> ZeroToken, err |-> <<"file does not exist">>],
                      FALSE, <<>>)
    /\ UNCHANGED <<albumVars, clock, storeVars, nLoads, nSaves, flowVars>>

\* LoadToken, second half: json.NewDecoder(f).Decode(&tok) reads what the file
\* holds now; then token.Valid() and the return.
LT_Decode ==
    /\ ac.pc = "decode"
    /\ AC_Finish(Nil, DecodeToken(tokenFile.data), ca.pc = "encode", tokenFile.data)
    /\ UNCHANGED <<albumVars, clock, storeVars, nLoads, nSaves, flowVars>>

\* ------------------------------------------------------------- no flow running
NoMsg == [kind |-> "none", val |-> <<>>, from |-> 0]

FlowIdle ==
    /\ pc = "idle"
    /\ state = <<>>
    /\ server = [listener |-> "none", inShutdown |-> FALSE]
    /\ lg = "none"
    /\ codeChan = <<>>
    /\ errChan = <<>>
    /\ reqs = <<>>
    /\ picked = "none"
    /\ polled = {}
    /\ recv = NoMsg
    /\ result = <<>>
    /\ shutdownCalls = 0
    /\ sent = <<>>
    /\ earlier = <<>>

\* ------------------------------------------------------------- no album command running
AlbumIdle ==
    /\ cli = [pc |-> "idle", repo |-> "none", cmd |-> "none", arg |-> <<>>]
    /\ ucCalls = <<>>
    /\ out = <<>>
    /\ nCmds = 0

\* ------------------------------------------------------------- the store driver
\* A command calls CompleteAuthentication(code).
CA_Call ==
    /\ ca.pc \in {"idle", "done"}
    /\ nSaves < MaxSaves
    /\ nSaves' = nSaves + 1
    /\ \E code \in Codes : ca' = [IdleCA EXCEPT !.pc = "exchange", !.code = code]
    /\ prevFile' = tokenFile
    /\ exchangeCalls' = <<>>
    /\ saveCalls' = <<>>
    /\ calls' = <<>>
    /\ UNCHANGED <<albumVars, clock, tokenFile, readerVars, flowVars>>

Tick ==
    /\ clock + 10 <= MaxClock
    /\ clock' = clock + 10
    /\ UNCHANGED <<albumVars, storeVars, readerVars, nSaves, flowVars>>

InitStore ==
    /\ clock = 10
    /\ tokenFile \in {AbsentFile} \cup {FileOf(t) : t \in InitTokens}
    /\ ca = IdleCA
    /\ exchangeCalls = <<>>
    /\ saveCalls = <<>>
    /\ calls = <<>>
    /\ prevFile = tokenFile
    /\ ac = IdleAC
    /\ nSaves = 0
    /\ nLoads = 0
    /\ FlowIdle
    /\ AlbumIdle

NextStore ==
    \/ CA_Call
    \/ CA_Exchange
    \/ ST_Create
    \/ ST_Encode
    \/ AC_GetClient
    \/ LT_Open
    \/ LT_Decode
    \/ Tick

SpecStore == InitStore /\ [][NextStore]_vars

\* ------------------------------------------------------------- CompleteAuthenticationWithServer
\* state := "random-state-" + fmt.Sprintf("%d", time.Now().Unix())
MintState(now) == <<"random-state-", now>>

\* The address of the machine the flow runs on, and one of another machine.
Loopback == "127.0.0.1"
Remotes == {Loopback, "192.168.1.7"}

\* The requests a browser on the same machine may send to port 8080: the
\* callback with each combination of parameters, and one other path.
Queries(st) ==
    {q \in [path : {"/oauth2callback", "/favicon.ico"}, error : {"", "access_denied"},
            state : {st, <<"forged">>}, code : {""} \cup Codes, remote : {Loopback}] :
        q.path = "/oauth2callback" \/ (q.error = "" /\ q.state = st /\ q.code = "c1")}

\* Mutant: the state parameter is not checked.
HandlerNoStateCheck(q, st) ==
    IF q.path # "/oauth2callback"
    THEN [kind |-> "none", val |-> <<>>, resp |-> <<"404 page not found">>]
    ELSE IF q.error # ""
    THEN [kind |-> "err", val |-> <<"OAuth error", q.error>>, resp |-> <<"200">>]
    ELSE IF q.code = ""
    THEN [kind |-> "err", val |-> <<"no authorization code received">>,
          resp |-> <<"200">>]
    ELSE [kind |-> "code", val |-> <<q.code>>,
          resp |-> <<"200", "Authorization Successful!">>]

\* Mutant: an empty code is not refused.
HandlerNoCodeCheck(q, st) ==
    IF q.path # "/oauth2callback"
    THEN [kind |-> "none", val |-> <<>>, resp |-> <<"404 page not found">>]
    ELSE IF q.error # ""
    THEN [kind |-> "err", val |-> <<"OAuth error", q.error>>, resp |-> <<"200">>]
    ELSE IF q.state # st
    THEN [kind |-> "err", val |-> <<"invalid state parameter">>, resp |-> <<"200">>]
    ELSE [kind |-> "code", val |-> <<q.code>>,
          resp |-> <<"200", "Authorization Successful!">>]

\* Mutant: the state is checked before the error parameter.
HandlerStateFirst(q, st) ==
    IF q.path # "/oauth2callback"
    THEN [kind |-> "none", val |-> <<>>, resp |-> <<"404 page not found">>]
    ELSE IF q.state # st
    THEN [kind |-> "err", val |-> <<"invalid state parameter">>, resp |-> <<"200">>]
    ELSE IF q.error # ""
    THEN [kind |-> "err", val |-> <<"OAuth error", q.error>>, resp |-> <<"200">>]
    ELSE IF q.code = ""
    THEN [kind |-> "err", val |-> <<"no authorization code received">>,
          resp |-> <<"200">>]
    ELSE [kind |-> "code", val |-> <<q.code>>,
          resp |-> <<"200", "Authorization Successful!">>]

\* The handler of the local server, up to its channel send: the channel it
\* signals, the value it sends and what it has written to the browser.  A handler
\* that returns without writing leaves net/http to answer 200 with no body.
Handler(q, st) ==
    IF q.path # "/oauth2callback"
    THEN [kind |-> "none", val |-> <<>>, resp |-> <<"404 page not found">>]
    ELSE IF q.error # ""
    THEN [kind |-> "err", val |-> <<"OAuth error", q.error>>, resp |-> <<"200">>]
    ELSE IF q.state # st
    THEN [kind |-> "err", val |-> <<"invalid state parameter">>, resp |-> <<"200">>]
    ELSE IF q.code = ""
    THEN [kind |-> "err", val |-> <<"no authorization code received">>,
          resp |-> <<"200">>]
    ELSE [kind |-> "code", val |-> <<q.code>>,
          resp |-> <<"200", "Authorization Successful!">>]

\* Mutant: a signal sent after the select was decided replaces the one received.
SendLastWins(msg) ==
    /\ sent' = Append(sent, [kind |-> msg.kind, from |-> msg.from])
    /\ pc \in {"parked", "case"}
    /\ pc' = "case"
    /\ picked' = msg.kind
    /\ recv' = msg
    /\ UNCHANGED <<codeChan, errChan>>

\* A send on codeChan or errChan.  While the caller is blocked in the select the
\* Go runtime hands the value straight to it, which decides the select then and
\* there (later senders find no receiver); otherwise the value goes into the
\* buffer if there is room, and the sender stays blocked if there is none.
Send(msg) ==
    /\ sent' = Append(sent, [kind |-> msg.kind, from |-> msg.from])
    /\ IF pc = "parked"
       THEN /\ pc' = "case"
            /\ picked' = msg.kind
            /\ recv' = msg
            /\ UNCHANGED <<codeChan, errChan>>
       ELSE /\ UNCHANGED <<pc, picked, recv>>
            /\ IF msg.kind = "code"
               THEN /\ Len(codeChan) < ChanCap
                    /\ codeChan' = Append(codeChan, msg)
                    /\ UNCHANGED errChan
               ELSE /\ Len(errChan) < ChanCap
                    /\ errChan' = Append(errChan, msg)
                    /\ UNCHANGED codeChan

\* The function up to its select: the state is minted, the channels and the
\* server are made and the goroutine that will run ListenAndServe is started.
Start ==
    /\ pc = "start"
    /\ pc' = "select"
    /\ state' = MintState(clock)
    /\ server' = [listener |-> "new", inShutdown |-> FALSE]
    /\ lg' = "spawned"
    /\ UNCHANGED <<albumVars, earlier, polled, clock, storeVars, readerVars, nSaves,
                   codeChan, errChan, reqs, picked, recv, result, shutdownCalls, sent>>

\* server.ListenAndServe() begins: ErrServerClosed if Shutdown was already
\* called, else it goes on to bind the port.
LG_ListenAndServe ==
    /\ lg = "spawned"
    /\ lg' = IF server.inShutdown THEN "exited" ELSE "checked"
    /\ UNCHANGED server
    /\ UNCHANGED <<albumVars, earlier, polled, clock, storeVars, readerVars, nSaves, pc,
                   state, codeChan, errChan, reqs, picked, recv, result, shutdownCalls,
                   sent>>

\* net.Listen("tcp", ":8080"): the port is bound, or the bind fails (port 8080
\* in use).  A Shutdown called since the check does not stop it.
LG_Listen ==
    /\ lg = "checked"
    /\ \/ lg' = "bound" /\ server' = [server EXCEPT !.listener = "bound"]
       \/ lg' = "failed" /\ server' = [server EXCEPT !.listener = "failed"]
    /\ UNCHANGED <<albumVars, earlier, polled, clock, storeVars, readerVars, nSaves, pc,
                   state, codeChan, errChan, reqs, picked, recv, result, shutdownCalls,
                   sent>>

\* srv.Serve(ln): the listener is registered with the server and requests are
\* accepted from now on; if Shutdown was called meanwhile the listener is
\* refused, Serve returns ErrServerClosed and its deferred Close frees the port.
LG_Serve ==
    /\ lg = "bound"
    /\ IF server.inShutdown
       THEN lg' = "exited" /\ server' = [server EXCEPT !.listener = "closed"]
       ELSE lg' = "serving" /\ server' = [server EXCEPT !.listener = "listening"]
    /\ UNCHANGED <<albumVars, earlier, polled, clock, storeVars, readerVars, nSaves, pc,
                   state, codeChan, errChan, reqs, picked, recv, result, shutdownCalls,
                   sent>>

\* errChan <- fmt.Errorf("server error: %v", err)
LG_ServerError ==
    /\ lg = "failed"
    /\ Send([kind |-> "err", val |-> <<"server error">>, from |-> 0])
    /\ lg' = "exited"
    /\ UNCHANGED <<albumVars, earlier, polled, clock, storeVars, readerVars, nSaves,
                   state, server, reqs, result, shutdownCalls>>

\* ListenAndServe returns ErrServerClosed after Shutdown: nothing is sent.
LG_Closed ==
    /\ lg = "serving"
    /\ server.inShutdown
    /\ lg' = "exited"
    /\ UNCHANGED <<albumVars, earlier, polled, clock, storeVars, readerVars, nSaves, pc,
                   state, server, codeChan, errChan, reqs, picked, recv, result,
                   shutdownCalls, sent>>

\* One of the requests Q is accepted and its handler runs up to its channel
\* send.  Nothing of the request but its path and its query is read.
Accept(Q) ==
    /\ server.listener = "listening"
    /\ Len(reqs) < MaxReq
    /\ \E q \in Q :
          reqs' = Append(reqs, [q |-> q, sig |-> Handler(q, state),
                                hpc |-> IF Handler(q, state).kind = "none"
                                        THEN "done" ELSE "sending"])
    /\ UNCHANGED <<albumVars, earlier, polled, clock, storeVars, readerVars, nSaves, pc,
                   state, server, lg, codeChan, errChan, picked, recv, result,
                   shutdownCalls, sent>>

HandleRequest == Accept(Queries(state))

\* The handler's send completes and the handler returns.
HandlerSend ==
    \E i \in 1..Len(reqs) :
       /\ reqs[i].hpc = "sending"
       /\ Send([kind |-> reqs[i].sig.kind, val |-> reqs[i].sig.val, from |-> i])
       /\ reqs' = [reqs EXCEPT ![i].hpc = "done"]
       /\ UNCHANGED <<albumVars, earlier, polled, clock, storeVars, readerVars, nSaves,
                      state, server, lg, result, shutdownCalls>>

\* The select is reached: a channel that already holds a value is received
\* from, either one when both do; with both empty the caller blocks.  The timer
\* of time.After(10 * time.Minute) starts here.
Select ==
    /\ pc = "select"
    /\ polled' = {k \in {"code", "err"} :
                     (k = "code" /\ codeChan # <<>>) \/ (k = "err" /\ errChan # <<>>)}
    /\ IF codeChan = <<>> /\ errChan = <<>>
       THEN /\ pc' = "parked"
            /\ UNCHANGED <<codeChan, errChan, picked, recv>>
       ELSE /\ pc' = "case"
            /\ \/ /\ codeChan # <<>>
                  /\ picked' = "code"
                  /\ recv' = Head(codeChan)
                  /\ codeChan' = Tail(codeChan)
                  /\ UNCHANGED errChan
               \/ /\ errChan # <<>>
                  /\ picked' = "err"
                  /\ recv' = Head(errChan)
                  /\ errChan' = Tail(errChan)
                  /\ UNCHANGED codeChan
    /\ UNCHANGED <<albumVars, earlier, clock, storeVars, readerVars, nSaves, state,
                   server, lg, reqs, result, shutdownCalls, sent>>

\* time.After(10 * time.Minute), in the seconds of the clock.
SelectTimeout == 600

\* The timer fires while the caller is blocked in the select: it is started
\* when the select is reached, so it has not fired when the channels are
\* polled, and when it fires its 10 minutes have passed.  It depends on nothing
\* the listener goroutine does: a goroutine held up in its start (its log
\* writes to a stderr nobody drains, the process was stopped) is where it was.
Timeout ==
    /\ pc = "parked"
    /\ clock' = clock + SelectTimeout
    /\ pc' = "case"
    /\ picked' = "timeout"
    /\ UNCHANGED <<albumVars, earlier, polled, storeVars, readerVars, nSaves,
                   state, server, lg, codeChan, errChan, reqs, recv, result,
                   shutdownCalls, sent>>

\* Mutant: Shutdown is also deferred, so it runs twice.
ShutdownTwice ==
    /\ shutdownCalls' = shutdownCalls + 2
    /\ server' = [listener |-> IF server.listener = "listening" THEN "closed"
                               ELSE server.listener,
                  inShutdown |-> TRUE]

\* server.Shutdown(ctx) is called: the server is marked as shutting down and
\* the listener it serves on is closed, so no request is accepted any more.  A
\* listener that is bound but not yet registered is not known to it.
Shutdown ==
    /\ shutdownCalls' = shutdownCalls + 1
    /\ server' = [listener |-> IF server.listener = "listening" THEN "closed"
                               ELSE server.listener,
                  inShutdown |-> TRUE]

\* Mutant: Shutdown has no deadline and returns only when every handler has.
ShutdownReturnsWhenIdle == \A i \in 1..Len(reqs) : reqs[i].hpc = "done"

\* server.Shutdown(ctx) returns: every connection is idle (its handler has
\* returned), or the 5 seconds of the context are over; the error is dropped.
\* Between the call and the return the other goroutines run.
ShutdownReturns ==
    \E expired \in BOOLEAN : expired \/ \A i \in 1..Len(reqs) : reqs[i].hpc = "done"

\* case code := <-codeChan: Shutdown is called.
CaseCode ==
    /\ pc = "case"
    /\ picked = "code"
    /\ Shutdown
    /\ pc' = "shutdown"
    /\ UNCHANGED <<albumVars, earlier, polled, clock, storeVars, readerVars, nSaves,
                   state, lg, codeChan, errChan, reqs, picked, recv, result, sent>>

\* Shutdown has returned: CompleteAuthentication(code) is called.
CaseCodeComplete ==
    /\ pc = "shutdown"
    /\ picked = "code"
    /\ ShutdownReturns
    /\ pc' = "complete"
    /\ ca' = [IdleCA EXCEPT !.pc = "exchange", !.code = recv.val[1]]
    /\ prevFile' = tokenFile
    /\ UNCHANGED <<albumVars, earlier, polled, clock, tokenFile, exchangeCalls,
                   saveCalls, calls, readerVars, nSaves, state, server, lg, codeChan,
                   errChan, reqs, picked, recv, result, shutdownCalls, sent>>

\* return uc.CompleteAuthentication(code)
CaseCodeReturn ==
    /\ pc = "complete"
    /\ ca.pc = "done"
    /\ pc' = "done"
    /\ result' = ca.err
    /\ UNCHANGED <<albumVars, earlier, polled, clock, storeVars, readerVars, nSaves,
                   state, server, lg, codeChan, errChan, reqs, picked, recv,
                   shutdownCalls, sent>>

\* case err := <-errChan: Shutdown is called.
CaseErr ==
    /\ pc = "case"
    /\ picked = "err"
    /\ Shutdown
    /\ pc' = "shutdown"
    /\ UNCHANGED <<albumVars, earlier, polled, clock, storeVars, readerVars, nSaves,
                   state, lg, codeChan, errChan, reqs, picked, recv, result, sent>>

\* Shutdown has returned: return err.
CaseErrReturn ==
    /\ pc = "shutdown"
    /\ picked = "err"
    /\ ShutdownReturns
    /\ pc' = "done"
    /\ result' = recv.val
    /\ UNCHANGED <<albumVars, earlier, polled, clock, storeVars, readerVars, nSaves,
                   state, server, lg, codeChan, errChan, reqs, picked, recv,
                   shutdownCalls, sent>>

\* case <-time.After(10 * time.Minute): Shutdown is called.
CaseTimeout ==
    /\ pc = "case"
    /\ picked = "timeout"
    /\ Shutdown
    /\ pc' = "shutdown"
    /\ UNCHANGED <<albumVars, earlier, polled, clock, storeVars, readerVars, nSaves,
                   state, lg, codeChan, errChan, reqs, picked, recv, result, sent>>

\* Shutdown has returned: the timeout error is returned.
CaseTimeoutReturn ==
    /\ pc = "shutdown"
    /\ picked = "timeout"
    /\ ShutdownReturns
    /\ pc' = "done"
    /\ result' = <<"OAuth flow timed out">>
    /\ UNCHANGED <<albumVars, earlier, polled, clock, storeVars, readerVars, nSaves,
                   state, server, lg, codeChan, errChan, reqs, picked, recv,
                   shutdownCalls, sent>>

Init ==
    /\ clock = 10
    /\ tokenFile \in {AbsentFile} \cup {FileOf(t) : t \in InitTokens}
    /\ ca = IdleCA
    /\ exchangeCalls = <<>>
    /\ saveCalls = <<>>
    /\ calls = <<>>
    /\ prevFile = tokenFile
    /\ ac = IdleAC
    /\ nSaves = 0
    /\ nLoads = 0
    /\ pc = "start"
    /\ state = <<>>
    /\ server = [listener |-> "none", inShutdown |-> FALSE]
    /\ lg = "none"
    /\ codeChan = <<>>
    /\ errChan = <<>>
    /\ reqs = <<>>
    /\ picked = "none"
    /\ polled = {}
    /\ recv = NoMsg
    /\ result = <<>>
    /\ shutdownCalls = 0
    /\ sent = <<>>
    /\ earlier = <<>>
    /\ AlbumIdle

Next ==
    \/ Start
    \/ LG_ListenAndServe
    \/ LG_Listen
    \/ LG_Serve
    \/ LG_ServerError
    \/ LG_Closed
    \/ HandleRequest
    \/ HandlerSend
    \/ Select
    \/ Timeout
    \/ CaseCode
    \/ CaseCodeComplete
    \/ CA_Exchange
    \/ ST_Create
    \/ ST_Encode
    \/ CaseCodeReturn
    \/ CaseErr
    \/ CaseErrReturn
    \/ CaseTimeout
    \/ CaseTimeoutReturn

Spec == Init /\ [][Next]_vars

\* The same flow with a fair scheduler and a timer that fires: the caller's own
\* steps are taken when they stay possible, and so is the firing of the timer
\* while the caller waits.  Nothing is assumed of the browser, the handlers or
\* the listener goroutine.
SpecLive ==
    /\ Init
    /\ [][Next]_vars
    /\ WF_vars(Start)
    /\ WF_vars(Select)
    /\ WF_vars(Timeout)
    /\ WF_vars(CaseCode)
    /\ WF_vars(CaseCodeComplete)
    /\ WF_vars(CaseErr)
    /\ WF_vars(CaseErrReturn)
    /\ WF_vars(CaseTimeout)
    /\ WF_vars(CaseTimeoutReturn)

\* ------------------------------------------------------------- the open port, and a retry
\* Addr is ":8080", every interface of the machine, so a request may also
\* come from another machine; and a request may carry the state of the
\* invocation before this one.
OpenQueries(st, old) ==
    Queries(st)
    \cup {[path |-> "/oauth2callback", error |-> "access_denied", state |-> <<"forged">>,
           code |-> "", remote |-> r] : r \in Remotes \ {Loopback}}
    \cup {[path |-> "/oauth2callback", error |-> "", state |-> st, code |-> "c1",
           remote |-> r] : r \in Remotes \ {Loopback}}
    \cup {[path |-> "/oauth2callback", error |-> "", state |-> o, code |-> "c1",
           remote |-> Loopback] : o \in {old} \ {<<>>}}

HandleOpenRequest == Accept(OpenQueries(state, earlier))

\* CompleteAuthenticationWithServer is called again after an invocation that
\* ended without a code, in the same second or in a later one: everything of
\* the flow is made anew.
Reinvoke ==
    /\ pc = "done"
    /\ picked \in {"err", "timeout"}
    /\ earlier = <<>>
    /\ earlier' = state
    /\ \E now \in {clock, clock + 10} : (now = clock \/ now <= MaxClock) /\ clock' = now
    /\ pc' = "start"
    /\ state' = <<>>
    /\ server' = [listener |-> "none", inShutdown |-> FALSE]
    /\ lg' = "none"
    /\ codeChan' = <<>>
    /\ errChan' = <<>>
    /\ reqs' = <<>>
    /\ picked' = "none"
    /\ polled' = {}
    /\ recv' = NoMsg
    /\ result' = <<>>
    /\ shutdownCalls' = 0
    /\ sent' = <<>>
    /\ UNCHANGED <<albumVars, storeVars, readerVars, nSaves>>

InitOpen == Init /\ tokenFile = AbsentFile

NextOpen ==
    \/ Start
    \/ LG_ListenAndServe
    \/ LG_Listen
    \/ LG_Serve
    \/ LG_ServerError
    \/ LG_Closed
    \/ HandleOpenRequest
    \/ HandlerSend
    \/ Select
    \/ Timeout
    \/ CaseCode
    \/ CaseCodeComplete
    \/ CA_Exchange
    \/ ST_Create
    \/ ST_Encode
    \/ CaseCodeReturn
    \/ CaseErr
    \/ CaseErrReturn
    \/ CaseTimeout
    \/ CaseTimeoutReturn
    \/ Reinvoke

SpecOpen == InitOpen /\ [][NextOpen]_vars

\* ============================================================= albums
\* ------------------------------------------------------------- bounds
\* Album commands run by the CLI driver.
MaxCmds == 2

\* ------------------------------------------------------------- domain
\* http.StatusOK
StatusOK == 200

\* A pointer result is a sequence: <<>> is nil, <<v>> points to v.  Titles are
\* pairs, so that the title HandleCreateAlbum builds from the time is one of them.
NoTitle == <<"", 0>>
ZeroAlbum == [ID |-> "", Title |-> NoTitle]
Album1 == [ID |-> "1", Title |-> <<"Test Album 1", 0>>]
Album2 == [ID |-> "2", Title |-> <<"Test Album 2", 0>>]
AlbumLists == {<<>>, <<Album1>>, <<Album1, Album2>>}
PageTokens == {"", "XYZ", "P3"}
\* Status codes the API answers with: OK, two other 2xx, a 4xx and a 5xx.
Statuses == {StatusOK, 201, 204, 403, 500}

\* ------------------------------------------------------------- response bodies
\* A body is a sequence of lexical items, as the token file is.
AlbumJSON(a) == << <<"{">>, <<"id", a.ID>>, <<"title", a.Title>>, <<"}">> >>

\* The albums key is left out for an empty list, the token for an empty one.
PageJSON(albums, token) ==
    << <<"{">> >>
    \o (IF albums = <<>> THEN <<>> ELSE << <<"albums", albums>> >>)
    \o (IF token = "" THEN <<>> ELSE << <<"nextPageToken", token>> >>)
    \o << <<"}">> >>

\* The body of an API error: {"error": {"status": ...}}
ErrorJSON(status) == << <<"{">>, <<"error", status>>, <<"}">> >>

\* What the upstream may put in a body: an album, a page, an error object, a
\* value that is cut short, or nothing.
Bodies ==
    {AlbumJSON(Album1), ErrorJSON("PERMISSION_DENIED"),
     Prefix(AlbumJSON(Album1), 2), <<>>}
    \cup {PageJSON(l, t) : l \in AlbumLists, t \in PageTokens}

\* r.client.Do(req): a transport error, or a response with a status and a body.
Responses ==
    {[neterr |-> TRUE, status |-> 0, body |-> <<>>]}
    \cup {[neterr |-> FALSE, status |-> s, body |-> b] : s \in Statuses, b \in Bodies}

NoResponse == [neterr |-> FALSE, status |-> 0, body |-> <<>>]

\* json.NewDecoder(body).Decode(&album): an error for an empty or cut-short
\* body, else the id and title keys found; other keys are ignored and a key
\* that is absent leaves the zero value.
DecodeAlbum(data) ==
    IF data = <<>> THEN [res |-> <<>>, err |-> <<"EOF">>]
    ELSE IF ~HasItem(data, "}") THEN [res |-> <<>>, err |-> <<"unexpected EOF">>]
    ELSE [res |-> <<[ID |-> Field(data, "id", ""),
                     Title |-> Field(data, "title", NoTitle)]>>,
          err |-> Nil]

\* json.Unmarshal(body, &data) into an AlbumsResponse.
DecodeAlbumsResponse(data) ==
    IF data = <<>> \/ ~HasItem(data, "}")
    THEN [res |-> <<>>, err |-> <<"unexpected end of JSON input">>]
    ELSE [res |-> <<[Albums |-> Field(data, "albums", <<>>),
                     NextPageToken |-> Field(data, "nextPageToken", "")]>>,
          err |-> Nil]

\* ------------------------------------------------------------- GooglePhotosRepository
\* What a repository call gave: [res, err], res a pointer.
Failed(err) == [res |-> <<>>, err |-> err]

\* Only 200 is read; any other status, 2xx or not, is an error naming it.
readAndParseResponse(resp) ==
    IF resp.status # StatusOK
    THEN Failed(<<"unexpected status code", resp.status>>)
    ELSE IF DecodeAlbumsResponse(resp.body).err # Nil
    THEN Failed(<<"failed to decode JSON", DecodeAlbumsResponse(resp.body).err>>)
    ELSE DecodeAlbumsResponse(resp.body)

RepoListAlbums(resp) ==
    IF resp.neterr THEN Failed(<<"failed to make albums request">>)
    ELSE readAndParseResponse(resp)

RepoFetchNextPage(nextPageToken, resp) ==
    IF resp.neterr THEN Failed(<<"failed to fetch next page">>)
    ELSE readAndParseResponse(resp)

RepoGetAlbumByID(id, resp) ==
    IF resp.neterr THEN Failed(<<"failed to fetch album">>)
    ELSE IF resp.status # StatusOK THEN Failed(<<"API error", resp.status>>)
    ELSE IF DecodeAlbum(resp.body).err # Nil
    THEN Failed(<<"failed to decode album", DecodeAlbum(resp.body).err>>)
    ELSE DecodeAlbum(resp.body)

\* The status of the response is not looked at: the body is decoded whatever
\* it is.
RepoCreateAlbum(title, resp) ==
    IF resp.neterr THEN Failed(<<"create album failed">>)
    ELSE IF DecodeAlbum(resp.body).err # Nil
    THEN Failed(<<"failed to decode response", DecodeAlbum(resp.body).err>>)
    ELSE DecodeAlbum(resp.body)

\* ------------------------------------------------------------- MockAlbumRepository
Mocks == {[albums |-> l, err |-> e] : l \in AlbumLists, e \in {Nil, <<"mock error">>}}

MockListAlbums(m) ==
    IF m.err # Nil THEN Failed(m.err)
    ELSE [res |-> <<[Albums |-> m.albums, NextPageToken |-> ""]>>, err |-> Nil]

\* The album with the id, and nil with a nil error when there is none.
MockGetAlbumByID(id, m) ==
    IF m.err # Nil THEN Failed(m.err)
    ELSE IF \E i \in 1..Len(m.albums) : m.albums[i].ID = id
    THEN [res |-> <<m.albums[CHOOSE i \in 1..Len(m.albums) :
                                /\ m.albums[i].ID = id
                                /\ \A j \in 1..(i - 1) : m.albums[j].ID # id]>>,
          err |-> Nil]
    ELSE [res |-> <<>>, err |-> Nil]

MockCreateAlbum(title, m) ==
    IF m.err # Nil THEN Failed(m.err)
    ELSE [res |-> <<[ID |-> "test-id", Title |-> title]>>, err |-> Nil]

MockFetchNextPage(nextPageToken, m) ==
    IF m.err # Nil THEN Failed(m.err)
    ELSE [res |-> <<[Albums |-> m.albums, NextPageToken |-> ""]>>, err |-> Nil]

\* ------------------------------------------------------------- domain.AlbumRepository
\* One call of the repository the use case was built with, for each thing the
\* upstream (or the mock's fields) may be: the call with what it returned.
RepoCall(op, arg, resp, r) ==
    [op |-> op, arg |-> arg, resp |-> resp, res |-> r.res, err |-> r.err]

RepoListAlbumsCalls(repo) ==
    IF repo = "google"
    THEN {RepoCall("ListAlbums", <<>>, resp, RepoListAlbums(resp)) : resp \in Responses}
    ELSE {RepoCall("ListAlbums", <<>>, NoResponse, MockListAlbums(m)) : m \in Mocks}

RepoGetAlbumByIDCalls(repo, id) ==
    IF repo = "google"
    THEN {RepoCall("GetAlbumByID", <<id>>, resp, RepoGetAlbumByID(id, resp)) :
             resp \in Responses}
    ELSE {RepoCall("GetAlbumByID", <<id>>, NoResponse, MockGetAlbumByID(id, m)) :
             m \in Mocks}

RepoCreateAlbumCalls(repo, title) ==
    IF repo = "google"
    THEN {RepoCall("CreateAlbum", <<title>>, resp, RepoCreateAlbum(title, resp)) :
             resp \in Responses}
    ELSE {RepoCall("CreateAlbum", <<title>>, NoResponse, MockCreateAlbum(title, m)) :
             m \in Mocks}

RepoFetchNextPageCalls(repo, nextPageToken) ==
    IF repo = "google"
    THEN {RepoCall("FetchNextPage", <<nextPageToken>>, resp,
                   RepoFetchNextPage(nextPageToken, resp)) : resp \in Responses}
    ELSE {RepoCall("FetchNextPage", <<nextPageToken>>, NoResponse,
                   MockFetchNextPage(nextPageToken, m)) : m \in Mocks}

\* ------------------------------------------------------------- AlbumUseCase
\* What the use case does with what its one repository call gave: the error
\* with a nil result, or the result as it is.  The result is dereferenced for
\* the log line before it is returned, so a nil result with a nil error is a
\* nil pointer dereference: the call panics.
UseCaseCall(rc) ==
    [op |-> rc.op, arg |-> rc.arg,
     res |-> IF rc.err # Nil THEN <<>> ELSE rc.res,
     err |-> rc.err,
     panic |-> rc.err = Nil /\ rc.res = <<>>,
     repo |-> <<rc>>]

ListAlbums(repo) == {UseCaseCall(rc) : rc \in RepoListAlbumsCalls(repo)}

GetAlbumByID(repo, id) == {UseCaseCall(rc) : rc \in RepoGetAlbumByIDCalls(repo, id)}

CreateAlbum(repo, title) == {UseCaseCall(rc) : rc \in RepoCreateAlbumCalls(repo, title)}

FetchNextPage(repo, nextPageToken) ==
    {UseCaseCall(rc) : rc \in RepoFetchNextPageCalls(repo, nextPageToken)}

\* ------------------------------------------------------------- CLIHandler
AlbumLine(a) == <<"-", a.Title, a.ID>>

printAlbums(albums) ==
    IF Len(albums) = 0 THEN << <<"No albums found.">> >>
    ELSE << <<"Albums:">> >> \o [i \in 1..Len(albums) |-> AlbumLine(albums[i])]

\* A run of a handler: the use-case calls it made, the lines it logged after
\* each of them, and whether a call panicked (the process dies then).
HandlerRun(u, lines) == [uc |-> <<u>>, out |-> <<lines>>, panic |-> u.panic]

\* Mutant: the page fetched is chased for a further page.
HandleNextPageRunsChasing(repo, nextPageToken) ==
    UNION {IF u.panic \/ u.err # Nil \/ u.res[1].NextPageToken = ""
           THEN {HandlerRun(u, <<>>)}
           ELSE {[uc |-> <<u>> \o <<n>>, out |-> << <<>>, <<>> >>, panic |-> n.panic] :
                    n \in FetchNextPage(repo, u.res[1].NextPageToken)} :
           u \in FetchNextPage(repo, nextPageToken)}

\* Mutant: the albums are printed also when the fetch failed.
HandleNextPageRunsPrintingOnError(repo, nextPageToken) ==
    {HandlerRun(u, printAlbums(<<Album1>>)) : u \in FetchNextPage(repo, nextPageToken)}

\* HandleNextPage(nextPageToken): one FetchNextPage; an error is logged and
\* the handler returns, else the albums of the page are printed if there are
\* any.  The page's own next page token is not looked at.
HandleNextPageRuns(repo, nextPageToken) ==
    {HandlerRun(u, IF u.panic THEN <<>>
                   ELSE IF u.err # Nil THEN << <<"Failed to fetch next page", u.err>> >>
                   ELSE IF Len(u.res[1].Albums) > 0
                   THEN << <<"Found albums on next page", Len(u.res[1].Albums)>> >>
                        \o printAlbums(u.res[1].Albums)
                   ELSE <<>>) :
        u \in FetchNextPage(repo, nextPageToken)}

\* HandleListAlbums(): one ListAlbums; an error is logged and the handler
\* returns, else the albums are printed and, when the page has a next page
\* token, handleNextPage is called with it.
HandleListAlbumsRuns(repo) ==
    UNION {IF u.panic THEN {HandlerRun(u, <<>>)}
           ELSE IF u.err # Nil
           THEN {HandlerRun(u, << <<"Failed to list albums", u.err>> >>)}
           ELSE IF u.res[1].NextPageToken = ""
           THEN {HandlerRun(u, printAlbums(u.res[1].Albums))}
           ELSE {[uc |-> <<u>> \o n.uc,
                  out |-> <<printAlbums(u.res[1].Albums)
                            \o << <<"Next page token", u.res[1].NextPageToken>> >> >>
                          \o n.out,
                  panic |-> n.panic] :
                    n \in HandleNextPageRuns(repo, u.res[1].NextPageToken)} :
           u \in ListAlbums(repo)}

\* title := "test-album-" + time.Now().Format(...)
CreateTitle(now) == <<"test-album-", now>>

HandleCreateAlbumRuns(repo, now) ==
    {HandlerRun(u, IF u.panic THEN <<>>
                   ELSE IF u.err # Nil THEN << <<"Failed to create album", u.err>> >>
                   ELSE << <<"Successfully created album", u.res[1].Title, u.res[1].ID>> >>) :
        u \in CreateAlbum(repo, CreateTitle(now))}

HandleGetAlbumRuns(repo, albumID) ==
    {HandlerRun(u, IF u.panic THEN <<>>
                   ELSE IF u.err # Nil THEN << <<"Failed to get album", u.err>> >>
                   ELSE << <<"Album Info:">>, <<"- ID", u.res[1].ID>>,
                           <<"- Title", u.res[1].Title>> >>) :
        u \in GetAlbumByID(repo, albumID)}

\* ------------------------------------------------------------- the CLI driver
\* A command runs to its end: its handler returns, or the process dies in a
\* panic, after which no command runs.
RunCommand(cmd, arg, run) ==
    /\ cli.pc \in {"idle", "done"}
    /\ nCmds < MaxCmds
    /\ nCmds' = nCmds + 1
    /\ cli' = [cli EXCEPT !.pc = IF run.panic THEN "panic" ELSE "done",
                          !.cmd = cmd, !.arg = arg]
    /\ ucCalls' = run.uc
    /\ out' = run.out
    /\ UNCHANGED <<clock, storeVars, readerVars, nSaves, flowVars>>

HandleListAlbums ==
    \E run \in HandleListAlbumsRuns(cli.repo) : RunCommand("list", <<>>, run)

HandleCreateAlbum ==
    \E run \in HandleCreateAlbumRuns(cli.repo, clock) : RunCommand("create", <<>>, run)

HandleGetAlbum ==
    \E albumID \in {"1", "9"} :
       \E run \in HandleGetAlbumRuns(cli.repo, albumID) :
          RunCommand("get", <<albumID>>, run)

HandleNextPage ==
    \E nextPageToken \in PageTokens \ {""} :
       \E run \in HandleNextPageRuns(cli.repo, nextPageToken) :
          RunCommand("next", <<nextPageToken>>, run)

\* The use case is built with the Google Photos repository or with the mock.
InitAlbum ==
    /\ clock = 10
    /\ tokenFile = AbsentFile
    /\ ca = IdleCA
    /\ exchangeCalls = <<>>
    /\ saveCalls = <<>>
    /\ calls = <<>>
    /\ prevFile = tokenFile
    /\ ac = IdleAC
    /\ nSaves = 0
    /\ nLoads = 0
    /\ FlowIdle
    /\ cli \in {[pc |-> "idle", repo |-> r, cmd |-> "none", arg |-> <<>>] :
                   r \in {"google", "mock"}}
    /\ ucCalls = <<>>
    /\ out = <<>>
    /\ nCmds = 0

NextAlbum ==
    \/ HandleListAlbums
    \/ HandleCreateAlbum
    \/ HandleGetAlbum
    \/ HandleNextPage

SpecAlbum == InitAlbum /\ [][NextAlbum]_vars

\* ============================================================= claims
IsCallback(i) == reqs[i].q.path = "/oauth2callback"

\* The outcome the caller took is the signal of request i.
DecidedBy(i) == picked \in {"code", "err"} /\ recv.from = i

NoTokenPersisted ==
    /\ exchangeCalls = <<>>
    /\ saveCalls = <<>>
    /\ tokenFile = prevFile

\* C1 (as amended): a callback whose state differs from the minted one never
\* signals a code, and an invocation decided by its signal calls neither
\* ExchangeCode nor SaveToken and leaves the token file as it was; when its error
\* parameter is empty the signal, and the result of an invocation decided by
\* it, is "invalid state parameter".
C1_WrongStateRejected ==
    \A i \in 1..Len(reqs) :
       (IsCallback(i) /\ reqs[i].q.state # state) =>
          /\ reqs[i].sig.kind = "err"
          /\ DecidedBy(i) => NoTokenPersisted
          /\ reqs[i].q.error = "" =>
                /\ reqs[i].sig.val = <<"invalid state parameter">>
                /\ (DecidedBy(i) /\ pc = "done") =>
                      result = <<"invalid state parameter">>

\* C1 as stated: whatever its error and code parameters are, a callback with a
\* wrong state makes the invocation it decides yield "invalid state parameter".
C1_Original ==
    \A i \in 1..Len(reqs) :
       (IsCallback(i) /\ reqs[i].q.state # state /\ DecidedBy(i) /\ pc = "done") =>
          /\ result = <<"invalid state parameter">>
          /\ NoTokenPersisted

\* A forged-state callback that carries a code decided the invocation.
C1_Witness ==
    /\ pc = "done"
    /\ \E i \in 1..Len(reqs) :
          /\ IsCallback(i) /\ DecidedBy(i)
          /\ reqs[i].q.state # state /\ reqs[i].q.error = "" /\ reqs[i].q.code = "c1"
    /\ result = <<"invalid state parameter">>
    /\ tokenFile.exists

\* The 10 minutes of the timer have passed since the invocation began.
TimeoutElapsed == state # <<>> /\ clock >= state[2] + SelectTimeout

C3_MissingCode ==
    \A i \in 1..Len(reqs) :
       (IsCallback(i) /\ reqs[i].q.error = "" /\ reqs[i].q.code = ""
          /\ reqs[i].q.state = state) =>
          /\ reqs[i].sig.kind = "err"
          /\ reqs[i].sig.val = <<"no authorization code received">>
          /\ (DecidedBy(i) /\ pc = "done") =>
                result = <<"no authorization code received">>

\* C3 as stated: every callback with an empty code and no error parameter,
\* whatever its state, makes the invocation it decides yield the missing-code
\* failure.
C3_Original ==
    \A i \in 1..Len(reqs) :
       (IsCallback(i) /\ reqs[i].q.error = "" /\ reqs[i].q.code = ""
          /\ DecidedBy(i) /\ pc = "done") =>
          result = <<"no authorization code received">>

C3_Witness ==
    /\ pc = "done"
    /\ \E i \in 1..Len(reqs) :
          /\ IsCallback(i) /\ DecidedBy(i)
          /\ reqs[i].q.error = "" /\ reqs[i].q.code = "" /\ reqs[i].q.state = state
    /\ result = <<"no authorization code received">>

\* C4: an invocation takes one case of the select and calls Shutdown once, on
\* that path: no Shutdown before a case is taken, exactly one once a path has
\* run, and the result returned is that of the case taken.
C4_OneOutcomeOneShutdown ==
    /\ shutdownCalls <= 1
    /\ pc \in {"start", "select", "parked"} => (picked = "none" /\ shutdownCalls = 0)
    /\ pc = "case" => (picked \in {"code", "err", "timeout"} /\ shutdownCalls = 0)
    /\ pc \in {"shutdown", "complete", "done"} =>
          (picked \in {"code", "err", "timeout"} /\ shutdownCalls = 1)
    /\ pc = "complete" => picked = "code"
    /\ pc = "done" =>
          /\ picked = "timeout" => result = <<"OAuth flow timed out">>
          /\ picked = "err" => (recv.kind = "err" /\ result = recv.val)
          /\ picked = "code" =>
                (recv.kind = "code" /\ result = ca.err /\ ca.code = recv.val[1])

\* The invocation returned after one Shutdown while a second signal was still
\* waiting in a channel.
C4_Witness ==
    /\ pc = "done"
    /\ shutdownCalls = 1
    /\ Len(sent) >= 2
    /\ codeChan # <<>> \/ errChan # <<>>

FirstSent == picked \in {"code", "err"} /\ recv.kind = sent[1].kind /\ recv.from = sent[1].from

\* C5 (as amended): the signal returned is the first one sent, unless a code
\* and an error were both waiting when the select was reached: then either is
\* returned, the one received being the value its channel held.
C5_FirstUnlessBothPending ==
    picked \in {"code", "err"} =>
       /\ sent # <<>>
       /\ recv.kind = picked
       /\ polled # {"code", "err"} => FirstSent
       /\ polled = {"code", "err"} =>
             \E j \in 1..2 : recv.kind = sent[j].kind /\ recv.from = sent[j].from

\* C5 as stated: the result returned is always that of the earlier signal,
\* also when both were pending before the select ran.
C5_Original == picked \in {"code", "err"} => FirstSent

\* A code was sent first and an error second, both before the select was
\* reached, and the error was returned.
C5_Witness ==
    /\ pc = "done"
    /\ polled = {"code", "err"}
    /\ sent[1].kind = "code"
    /\ picked = "err"
    /\ result = recv.val

ReaderDone == ac.pc = "done"

\* AuthenticateClient loaded a token whose expiry was in the past at the check.
LoadedExpired ==
    /\ ReaderDone
    /\ ac.cfgErr = Nil
    /\ ac.load.err = Nil
    /\ ac.load.tok.expiry # 0
    /\ ac.load.tok.expiry < ac.now

\* The load result with the token's expiry moved into the future.
Unexpired(load, now) == [load EXCEPT !.tok.expiry = now + 20]

\* C6 (as amended): for a stored token whose expiry is in the past
\* AuthenticateClient takes the branch that logs "Token expired, starting OAuth
\* flow..." and returns what it returns when no token can be loaded, the
\* configuration and a nil error; for the same token not yet expired only the
\* log line differs.
C6_ExpiredOnlyLogged ==
    LoadedExpired =>
       /\ ac.log = <<"Token expired, starting OAuth flow...">>
       /\ ac.config = <<"config">>
       /\ ac.err = Nil
       /\ ac.log # AuthenticateClient(Nil, Unexpired(ac.load, ac.now), ac.now).log

\* C6 as stated: for a stored token whose expiry is in the past,
\* AuthenticateClient's result (configuration and error) differs from its
\* result for the same token with an expiry in the future.
C6_Original ==
    LoadedExpired =>
       /\ TokenValid(Unexpired(ac.load, ac.now).tok, ac.now)
       /\ <<ac.config, ac.err>> #
             <<AuthenticateClient(Nil, Unexpired(ac.load, ac.now), ac.now).config,
               AuthenticateClient(Nil, Unexpired(ac.load, ac.now), ac.now).err>>

\* A token that expired at 5 was loaded at 10 or later.
C6_Witness ==
    /\ LoadedExpired
    /\ ac.load.tok.expiry = 5
    /\ ac.load.tok.access_token = "c0"
    /\ ac.log = <<"Token expired, starting OAuth flow...">>

\* C7: AuthenticateClient returns the configuration and a nil error whenever
\* GetClient succeeds, and GetClient's error with no configuration otherwise.
C7_ConfigUnlessGetClientFails ==
    ReaderDone =>
       IF ac.cfgErr = Nil
       THEN ac.config = <<"config">> /\ ac.err = Nil
       ELSE ac.config = <<"nil">> /\ ac.err = ac.cfgErr

\* The token file could not be decoded, and the configuration came back with
\* a nil error.
C7_Witness ==
    /\ ReaderDone
    /\ ac.cfgErr = Nil
    /\ ac.load.err = <<"unexpected EOF">>
    /\ ac.config = <<"config">>
    /\ ac.err = Nil

\* C8: when CompleteAuthentication returns nil, ExchangeCode was called once
\* with its code, SaveToken once after it with the token ExchangeCode
\* returned, and the token file holds that token: its encoding, which decodes
\* to the token's four exported fields.
C8_SavedIsExchanged ==
    (ca.pc = "done" /\ ca.err = Nil) =>
       /\ calls = <<"exchange", "save">>
       /\ Len(exchangeCalls) = 1
       /\ exchangeCalls[1].code = ca.code
       /\ exchangeCalls[1].res.err = Nil
       /\ saveCalls = <<exchangeCalls[1].res.tok>>
       /\ tokenFile = FileOf(exchangeCalls[1].res.tok)
       /\ DecodeToken(tokenFile.data) =
             [tok |-> [exchangeCalls[1].res.tok EXCEPT !.raw = <<>>], err |-> Nil]

\* A token for code c2 replaced the token the file held before.
C8_Witness ==
    /\ ca.pc = "done"
    /\ ca.err = Nil
    /\ ca.code = "c2"
    /\ prevFile.exists
    /\ tokenFile # prevFile
    /\ DecodeToken(tokenFile.data).tok.access_token = "c2"

\* C9 as stated: when CompleteAuthentication returns an error, SaveToken was
\* not called after a failed exchange, and after a failed save the token file
\* holds the complete previous token or no token.
C9_NoPartialState ==
    (ca.pc = "done" /\ ca.err # Nil) =>
       /\ exchangeCalls[1].res.err # Nil => (saveCalls = <<>> /\ tokenFile = prevFile)
       /\ saveCalls # <<>> =>
             \/ tokenFile = prevFile
             \/ ~tokenFile.exists
             \/ tokenFile.data = <<>>

\* C10 as stated: a LoadToken that reads the file while a SaveToken that
\* overwrites a complete token is under way sees the complete old token or
\* the complete new one.
C10_AtomicOverwrite ==
    (ReaderDone /\ ac.during /\ DecodeToken(ac.old).err = Nil) =>
       /\ ac.load.err = Nil
       /\ \/ ac.seen = ac.old
          \/ ac.seen = ac.new

CommandDone == cli.pc \in {"done", "panic"}

Is2xx(status) == status >= 200 /\ status < 300

\* C11 as stated: every repository call (ListAlbums, GetAlbumByID, CreateAlbum,
\* FetchNextPage) whose upstream response has a non-2xx status returns an error
\* and no album record.
C11_NonOKIsError ==
    cli.repo = "google" =>
       \A k \in 1..Len(ucCalls) :
          \A j \in 1..Len(ucCalls[k].repo) :
             (~ucCalls[k].repo[j].resp.neterr /\ ~Is2xx(ucCalls[k].repo[j].resp.status)) =>
                /\ ucCalls[k].repo[j].err # Nil
                /\ ucCalls[k].repo[j].res = <<>>

\* C12: the list command calls ListAlbums first and then, when that call
\* succeeded with a non-empty next page token, FetchNextPage once with that
\* token; in every other case it makes no FetchNextPage call, and it never makes
\* a second one, whatever token the second page carries.
C12_OneFollowUp ==
    (CommandDone /\ cli.cmd = "list") =>
       /\ ucCalls[1].op = "ListAlbums"
       /\ IF ucCalls[1].err = Nil /\ ~ucCalls[1].panic
             /\ ucCalls[1].res[1].NextPageToken # ""
          THEN /\ Len(ucCalls) = 2
               /\ ucCalls[2].op = "FetchNextPage"
               /\ ucCalls[2].arg = <<ucCalls[1].res[1].NextPageToken>>
          ELSE Len(ucCalls) = 1

\* The first page carried the token XYZ, the page fetched with it carried P3,
\* and nothing more was fetched.
C12_Witness ==
    /\ cli = [pc |-> "done", repo |-> "google", cmd |-> "list", arg |-> <<>>]
    /\ Len(ucCalls) = 2
    /\ ucCalls[1].res[1].NextPageToken = "XYZ"
    /\ ucCalls[2].arg = <<"XYZ">>
    /\ ucCalls[2].err = Nil
    /\ ucCalls[2].res[1].NextPageToken = "P3"

\* C13 as stated: every use-case call makes one repository call, the same
\* operation with the same argument, and returns what it gave: the result
\* unchanged with a nil error, or the error unchanged with a nil result.
C13_PassThrough ==
    \A k \in 1..Len(ucCalls) :
       /\ Len(ucCalls[k].repo) = 1
       /\ ucCalls[k].repo[1].op = ucCalls[k].op
       /\ ucCalls[k].repo[1].arg = ucCalls[k].arg
       /\ ~ucCalls[k].panic
       /\ ucCalls[k].err = ucCalls[k].repo[1].err
       /\ ucCalls[k].res = IF ucCalls[k].repo[1].err = Nil THEN ucCalls[k].repo[1].res
                           ELSE <<>>

\* C14: when a use-case call returns an error the handler returns (the
\* process lives on), that call is the last one of the command, and the only
\* line logged after it is the failure line carrying the error: no album line.
C14_ErrorAbortsCommand ==
    \A k \in 1..Len(ucCalls) :
       ucCalls[k].err # Nil =>
          /\ cli.pc = "done"
          /\ k = Len(ucCalls)
          /\ Len(out[k]) = 1
          /\ Len(out[k][1]) = 2
          /\ out[k][1][1] \in {"Failed to list albums", "Failed to create album",
                               "Failed to get album", "Failed to fetch next page"}
          /\ out[k][1][2] = ucCalls[k].err

\* A second command, list, ran after some first one; its ListAlbums failed on a
\* 500 response and no FetchNextPage followed.
C14_Witness ==
    /\ nCmds = 2
    /\ cli = [pc |-> "done", repo |-> "google", cmd |-> "list", arg |-> <<>>]
    /\ Len(ucCalls) = 1
    /\ ucCalls[1].err = <<"unexpected status code", 500>>
    /\ out = << << <<"Failed to list albums", <<"unexpected status code", 500>> >> >> >>

\* C15 as stated: a callback request from an address that is not the loopback
\* address is not served: it signals neither a code nor an error, so no send
\* is made for it and it never decides the outcome.
C15_LocalhostOnly ==
    \A i \in 1..Len(reqs) :
       (IsCallback(i) /\ reqs[i].q.remote # Loopback) =>
          /\ reqs[i].sig.kind = "none"
          /\ ~DecidedBy(i)
          /\ \A j \in 1..Len(sent) : sent[j].from # i

\* C17 as stated: the state an invocation mints differs from the state of the
\* invocation before it, and a callback that carries that earlier state (and
\* no error parameter) is answered "invalid state parameter".
C17_FreshState ==
    (earlier # <<>> /\ state # <<>>) =>
       /\ state # earlier
       /\ \A i \in 1..Len(reqs) :
             (IsCallback(i) /\ reqs[i].q.state = earlier /\ reqs[i].q.error = "") =>
                /\ reqs[i].sig.kind = "err"
                /\ reqs[i].sig.val = <<"invalid state parameter">>

\* C16: under a fair scheduler and timer every invocation gets past its
\* select and its Shutdown: it goes on to CompleteAuthentication or returns.
C16_LeavesWaitingAndShutdown == <>(pc \in {"complete", "done"})

\* The handler of request i waits in its send, the buffer of its channel is
\* full and the select has been decided: nothing will ever receive.
StuckSend(i) ==
    /\ reqs[i].hpc = "sending"
    /\ picked # "none"
    /\ Len(IF reqs[i].sig.kind = "code" THEN codeChan ELSE errChan) = ChanCap

\* The invocation returned, after its one Shutdown, while the handler of a
\* request was still blocked in its send.
C16_Witness ==
    /\ pc = "done"
    /\ shutdownCalls = 1
    /\ server.listener = "closed"
    /\ \E i \in 1..Len(reqs) : StuckSend(i)

Signals(i) == {j \in 1..Len(sent) : sent[j].from = i}

SuccessPage == <<"200", "Authorization Successful!">>

\* C18: every callback request gives one signal, on one channel, sent once
\* when its handler has returned and not before; the checks come in the order
\* error, state, code: an error parameter gives the OAuth error whatever the
\* state and the code are, then a wrong state gives the state error whatever
\* the code is, then an empty code gives the missing-code error; a request
\* that passes all three, and no other, has the success page written and its
\* code as signal, the page being there while the send is still to be done.
C18_CheckOrderOneSignal ==
    \A i \in 1..Len(reqs) :
       IsCallback(i) =>
          /\ reqs[i].sig.kind \in {"code", "err"}
          /\ Cardinality(Signals(i)) = IF reqs[i].hpc = "done" THEN 1 ELSE 0
          /\ \A j \in Signals(i) : sent[j].kind = reqs[i].sig.kind
          /\ reqs[i].q.error # "" =>
                /\ reqs[i].sig.kind = "err"
                /\ reqs[i].sig.val = <<"OAuth error", reqs[i].q.error>>
          /\ (reqs[i].q.error = "" /\ reqs[i].q.state # state) =>
                /\ reqs[i].sig.kind = "err"
                /\ reqs[i].sig.val = <<"invalid state parameter">>
          /\ (reqs[i].q.error = "" /\ reqs[i].q.state = state /\ reqs[i].q.code = "") =>
                /\ reqs[i].sig.kind = "err"
                /\ reqs[i].sig.val = <<"no authorization code received">>
          /\ (reqs[i].q.error = "" /\ reqs[i].q.state = state /\ reqs[i].q.code # "") =>
                /\ reqs[i].sig.kind = "code"
                /\ reqs[i].sig.val = <<reqs[i].q.code>>
          /\ reqs[i].sig.resp = SuccessPage <=> reqs[i].sig.kind = "code"

\* A request with an error parameter, a forged state and a code has signalled
\* the OAuth error, which was returned; a second request passed the three
\* checks: its page is written and its code not signalled yet.
C18_Witness ==
    /\ pc = "done"
    /\ Len(reqs) = 2
    /\ reqs[1].q.error = "access_denied" /\ reqs[1].q.state # state /\ reqs[1].q.code = "c1"
    /\ DecidedBy(1)
    /\ result = <<"OAuth error", "access_denied">>
    /\ reqs[2].sig.kind = "code"
    /\ reqs[2].sig.resp = SuccessPage
    /\ reqs[2].hpc = "sending"
    /\ Signals(2) = {}

\* C19: ExchangeCode is called at most once, with the code of the callback
\* request the select received, a request with no error parameter, the minted
\* state and a code that is not empty; SaveToken is called at most once, after
\* an ExchangeCode that succeeded and with its token; when the error or the
\* timeout case was taken neither is called and the token file is as it was.
C19_ExchangeOnlyValidCode ==
    /\ Len(exchangeCalls) <= 1
    /\ exchangeCalls # <<>> =>
          /\ picked = "code"
          /\ pc \in {"complete", "done"}
          /\ recv.from \in 1..Len(reqs)
          /\ IsCallback(recv.from)
          /\ reqs[recv.from].q.error = ""
          /\ reqs[recv.from].q.state = state
          /\ reqs[recv.from].q.code # ""
          /\ exchangeCalls[1].code = reqs[recv.from].q.code
    /\ saveCalls # <<>> =>
          /\ calls = <<"exchange", "save">>
          /\ exchangeCalls[1].res.err = Nil
          /\ saveCalls = <<exchangeCalls[1].res.tok>>
    /\ picked \in {"err", "timeout"} => NoTokenPersisted

\* The code c2 of the second request was exchanged and its token saved, the
\* first request having signalled an error that was not the one received.
C19_Witness ==
    /\ pc = "done"
    /\ result = Nil
    /\ Len(reqs) = 2
    /\ reqs[1].sig.kind = "err"
    /\ recv.from = 2
    /\ exchangeCalls[1].code = "c2"
    /\ calls = <<"exchange", "save">>
    /\ tokenFile = FileOf(exchangeCalls[1].res.tok)

\* C20 as stated: no handler stays blocked in its channel send: a handler that
\* waits in its send when the select has been decided finds room in the buffer.
C20_EverySendCompletes == \A i \in 1..Len(reqs) : ~StuckSend(i)
====
